---- MODULE Spec2Model ----
(***************************************************************************)
(* Model of src/main.py, the meteorite landings dashboard: one run of the  *)
(* script from load_data to the sidebar, with the polars frame operations  *)
(* it calls (rename, drop_nulls, filter, with_columns, drop, sort, head,   *)
(* group_by/agg) written out as operators on tables.                       *)
(*                                                                         *)
(* A table is [defined, cols, dtypes, rows]: cols is the set of column     *)
(* names, dtypes the data type of each column and rows a sequence of       *)
(* functions cols -> cell.  A cell is a tuple: <<>> is a null, <<v>> an    *)
(* integer value v, and <<q, r>> the float q + r/1000 (the quotient of an  *)
(* integer by 1000, kept exact).                                           *)
(***************************************************************************)
EXTENDS Integers, Sequences, FiniteSets

VARIABLES csv, df, current_year, pc, err, out, evaluated, heaviest,
          yearly_counts, second

vars ==
    <<csv, df, current_year, pc, err, out, evaluated, heaviest, yearly_counts,
      second>>

\* ---------------------------------------------------------------- bounds
\* Longest table of the exhaustive input family.
MaxLen == 3
\* Longest table of the long input family (more rows than head(10) keeps).
MaxRows == 11

\* ---------------------------------------------------------------- cells
Null == <<>>

IsNull(v) == Len(v) = 0

\* The integer a cell is ordered by: v of <<v>>, 1000*q + r of <<q, r>>.
CellKey(v) == IF Len(v) = 2 THEN 1000 * v[1] + v[2] ELSE v[1]

NoFrame == [defined |-> FALSE, cols |-> {}, dtypes |-> <<>>, rows |-> <<>>]

Frame(cols, dtypes, rows) ==
    [defined |-> TRUE, cols |-> cols, dtypes |-> dtypes, rows |-> rows]

Ok(t) == [ok |-> TRUE, table |-> t, err |-> "none"]

Raise(e) == [ok |-> FALSE, table |-> NoFrame, err |-> e]

\* ------------------------------------------------------- rename_columns
rename_dict ==
    [c \in {"name", "id", "nametype", "recclass", "fall", "year", "reclat",
            "reclong", "GeoLocation"} |->
        CASE c = "name" -> "Name"
          [] c = "id" -> "ID"
          [] c = "nametype" -> "Name Type"
          [] c = "recclass" -> "Classification"
          [] c = "fall" -> "Fall Status"
          [] c = "year" -> "Year"
          [] c = "reclat" -> "Latitude"
          [] c = "reclong" -> "Longitude"
          [] c = "GeoLocation" -> "GeoLocation"]

\* The new name of column c: only the columns the dictionary names change.
NewName(c) == IF c \in DOMAIN rename_dict THEN rename_dict[c] ELSE c

\* df.rename({col: new_name ... if col in df.columns}).  The inputs drawn below
\* never hold both a source name and its target, so no two columns collide.
RenameColumns(t) ==
    LET newcols == {NewName(c) : c \in t.cols}
        old(c2) == CHOOSE c \in t.cols : NewName(c) = c2
    IN Frame(newcols,
             [c2 \in newcols |-> t.dtypes[old(c2)]],
             [i \in 1..Len(t.rows) |-> [c2 \in newcols |-> t.rows[i][old(c2)]]])

\* --------------------------------------------------------- process_data
\* mass_column = 'Mass (g)' if 'Mass (g)' in df.columns else 'mass (g)'
MassColumn(cols) == IF "Mass (g)" \in cols THEN "Mass (g)" ELSE "mass (g)"

\* drop_nulls with Latitude left out of the subset.
DropNulls_NoLatitude(t, subset) ==
    IF ~(subset \subseteq t.cols)
    THEN Raise("ColumnNotFoundError")
    ELSE Ok(Frame(t.cols, t.dtypes,
                  SelectSeq(t.rows,
                            LAMBDA r : \A c \in subset \ {"Latitude"} : ~IsNull(r[c]))))

\* df.drop_nulls(subset=...): the rows with no null in the subset's columns, in
\* their order; a subset column the frame lacks raises ColumnNotFoundError.
DropNulls(t, subset) ==
    IF ~(subset \subseteq t.cols)
    THEN Raise("ColumnNotFoundError")
    ELSE Ok(Frame(t.cols, t.dtypes,
                  SelectSeq(t.rows, LAMBDA r : \A c \in subset : ~IsNull(r[c]))))

\* The filter's result not assigned: every row is kept.
FilterYear_KeepAll(t, cy) == Ok(t)

\* The filter with < in place of <=.
FilterYear_Strict(t, cy) ==
    IF t.dtypes["Year"] = "String"
    THEN Raise("ComputeError")
    ELSE Ok(Frame(t.cols, t.dtypes,
                  SelectSeq(t.rows,
                            LAMBDA r : ~IsNull(r["Year"]) /\ r["Year"][1] < cy)))

\* df.filter(pl.col('Year') <= current_year): a null comparison keeps no row;
\* polars refuses to compare a String column with a number, whatever the rows.
FilterYear(t, cy) ==
    IF t.dtypes["Year"] = "String"
    THEN Raise("ComputeError")
    ELSE Ok(Frame(t.cols, t.dtypes,
                  SelectSeq(t.rows,
                            LAMBDA r : ~IsNull(r["Year"]) /\ r["Year"][1] <= cy)))

\* Floor division (//) in place of true division.
DivideBy1000_Floor(v) == IF IsNull(v) THEN Null ELSE <<v[1] \div 1000, 0>>

\* pl.col(mass_column) / 1000: true division, an integer g becomes the float
\* g/1000, held as <<whole part, thousandths>>; a null stays null.
DivideBy1000(v) ==
    IF IsNull(v) THEN Null ELSE <<v[1] \div 1000, v[1] % 1000>>

\* df.with_columns([(pl.col(mass_column) / 1000).alias('Mass (kg)')]): the new
\* column is a Float64; polars refuses to divide a String column.
WithMassKg(t, mass_column) ==
    LET newcols == t.cols \cup {"Mass (kg)"}
    IN IF t.dtypes[mass_column] = "String"
       THEN Raise("InvalidOperationError")
       ELSE Ok(Frame(newcols,
                     [c \in newcols |->
                        IF c = "Mass (kg)" THEN "Float64" ELSE t.dtypes[c]],
                     [i \in 1..Len(t.rows) |->
                        [c \in newcols |->
                            IF c = "Mass (kg)"
                            THEN DivideBy1000(t.rows[i][mass_column])
                            ELSE t.rows[i][c]]]))

\* The drop left out: the frame keeps the column.
DropColumn_Keep(t, column) == t

\* df.drop(column)
DropColumn(t, column) ==
    LET newcols == t.cols \ {column}
    IN Frame(newcols,
             [c \in newcols |-> t.dtypes[c]],
             [i \in 1..Len(t.rows) |-> [c \in newcols |-> t.rows[i][c]]])

\* Lines 37-44 of process_data, after drop_nulls: the filter, the new column,
\* the drop of the old one.
Derive(t, cy, mass_column) ==
    LET f == FilterYear(t, cy)
    IN IF ~f.ok THEN f
       ELSE LET w == WithMassKg(f.table, mass_column)
            IN IF ~w.ok THEN w ELSE Ok(DropColumn(w.table, mass_column))

\* process_data returning the frame as it is when it has no mass column.
ProcessData_Tolerant(t, cy) ==
    LET mass_column == MassColumn(t.cols)
        kept == DropNulls(t, {"Latitude", "Longitude", mass_column, "Year"})
    IN IF mass_column \notin t.cols THEN Ok(t)
       ELSE IF ~kept.ok THEN kept
       ELSE Derive(kept.table, cy, mass_column)

\* Lines 29-44
ProcessData(t, cy) ==
    LET mass_column == MassColumn(t.cols)
        kept == DropNulls(t, {"Latitude", "Longitude", mass_column, "Year"})
    IN IF ~kept.ok THEN kept ELSE Derive(kept.table, cy, mass_column)

\* ------------------------------------------------------------ aggregates
RECURSIVE SetMax(_)
SetMax(S) ==
    LET x == CHOOSE x \in S : TRUE
    IN IF S = {x} THEN x
       ELSE LET m == SetMax(S \ {x}) IN IF x > m THEN x ELSE m

RECURSIVE SetMin(_)
SetMin(S) ==
    LET x == CHOOSE x \in S : TRUE
    IN IF S = {x} THEN x
       ELSE LET m == SetMin(S \ {x}) IN IF x < m THEN x ELSE m

\* The rows of t whose cell in column col is not null.
NonNull(t, col) == {i \in 1..Len(t.rows) : ~IsNull(t.rows[i][col])}

\* df[col].max(): the largest non-null cell, None (a null) when there is none.
ColMax(t, col) ==
    LET S == NonNull(t, col)
    IN IF S = {} THEN Null
       ELSE LET m == SetMax({CellKey(t.rows[i][col]) : i \in S})
            IN t.rows[CHOOSE i \in S : CellKey(t.rows[i][col]) = m][col]

\* The orders in which the members of the set G can follow one another.
Orderings(G) ==
    {p \in [1..Cardinality(G) -> G] :
        \A i, j \in 1..Cardinality(G) : i # j => p[i] # p[j]}

\* descending=True left out: the smallest key first.
FirstKey_Ascending(key, S, descending) == SetMin({key[i] : i \in S})

\* The first key of a sort over the row numbers S: the largest when descending.
FirstKey(key, S, descending) ==
    IF descending THEN SetMax({key[i] : i \in S}) ELSE SetMin({key[i] : i \in S})

\* The orders of the row numbers S a sort by key can return.  DataFrame.sort is
\* called without maintain_order=True, so polars does not say in which order rows
\* of equal key come out: every order of each group of equal keys is an outcome.
RECURSIVE SortedOrders(_, _, _)
SortedOrders(key, S, descending) ==
    IF S = {} THEN {<<>>}
    ELSE LET m == FirstKey(key, S, descending)
             G == {i \in S : key[i] = m}
         IN {p \o q : p \in Orderings(G),
                      q \in SortedOrders(key, S \ G, descending)}

\* df.sort(col, descending=...): the frames it can return (no null cell in col).
SortFrame(t, col, descending) ==
    LET key == [i \in 1..Len(t.rows) |-> CellKey(t.rows[i][col])]
    IN {Frame(t.cols, t.dtypes, [k \in 1..Len(p) |-> t.rows[p[k]]]) :
            p \in SortedOrders(key, 1..Len(t.rows), descending)}

\* df.head(n)
FrameHead(t, n) ==
    Frame(t.cols, t.dtypes,
          SubSeq(t.rows, 1, IF Len(t.rows) < n THEN Len(t.rows) ELSE n))

\* head(10) of line 101
TopN == 10

\* The aggregation that sets a count to 1 at every row instead of adding 1.
RECURSIVE CountByYear_NoAdd(_, _, _)
CountByYear_NoAdd(rows, i, acc) ==
    IF i > Len(rows) THEN acc
    ELSE LET y == rows[i]["Year"]
         IN CountByYear_NoAdd(rows, i + 1,
                [z \in DOMAIN acc \cup {y} |-> IF z = y THEN 1 ELSE acc[z]])

\* The hash aggregation of group_by("Year").agg(pl.count()): rows i..Len are read
\* in turn, each adding one to the count of its Year in acc.
RECURSIVE CountByYear(_, _, _)
CountByYear(rows, i, acc) ==
    IF i > Len(rows) THEN acc
    ELSE LET y == rows[i]["Year"]
         IN CountByYear(rows, i + 1,
                [z \in DOMAIN acc \cup {y} |->
                    IF z = y THEN (IF y \in DOMAIN acc THEN acc[y] + 1 ELSE 1)
                    ELSE acc[z]])

\* df.group_by("Year").agg(pl.count()): one row [Year, count] per group; the
\* groups come out in no specified order, so every order is an outcome.
GroupByYearCount(t) ==
    LET acc == CountByYear(t.rows, 1, [z \in {} |-> 0])
    IN {Frame({"Year", "count"},
              [Year |-> t.dtypes["Year"], count |-> "UInt32"],
              [k \in 1..Len(p) |-> [Year |-> p[k], count |-> <<acc[p[k]]>>]]) :
            p \in Orderings(DOMAIN acc)}

\* The columns px.scatter_mapbox is told to read (lines 73-79).
MapColumns ==
    {"Latitude", "Longitude", "Name", "Year", "Mass (kg)", "Classification",
     "Fall Status"}

\* ---------------------------------------------------------------- inputs
\* The columns of the CSV file besides the mass column(s).
BaseColumns ==
    {"name", "id", "nametype", "recclass", "fall", "year", "reclat", "reclong",
     "GeoLocation"}

\* The schemas of the files read: the mass in grams under either spelling, under
\* both, under neither, and a file without the name column.
Schemas ==
    {BaseColumns \cup {"mass (g)"},
     BaseColumns \cup {"Mass (g)"},
     BaseColumns \cup {"Mass (g)", "mass (g)"},
     BaseColumns,
     (BaseColumns \ {"name"}) \cup {"mass (g)"}}

\* The data of a row: Zag (27.2, -3.4, 1998, 1750000 g, degrees rounded), a row
\* dated with a possible current year, rows with one field missing, a row dated
\* 2999, and rows whose mass is under one spelling only.
Samples ==
    {[lat |-> <<27>>, lon |-> <<-3>>, year |-> <<1998>>, U |-> <<1750000>>, L |-> <<1750000>>],
     [lat |-> <<27>>, lon |-> <<-3>>, year |-> <<2026>>, U |-> <<500>>, L |-> <<500>>],
     [lat |-> Null, lon |-> <<-3>>, year |-> <<1998>>, U |-> <<500>>, L |-> <<500>>],
     [lat |-> <<27>>, lon |-> Null, year |-> <<1998>>, U |-> <<500>>, L |-> <<500>>],
     [lat |-> <<27>>, lon |-> <<-3>>, year |-> Null, U |-> <<500>>, L |-> <<500>>],
     [lat |-> <<27>>, lon |-> <<-3>>, year |-> <<2999>>, U |-> <<500>>, L |-> <<500>>],
     [lat |-> <<27>>, lon |-> <<-3>>, year |-> <<1998>>, U |-> Null, L |-> <<500>>],
     [lat |-> <<27>>, lon |-> <<-3>>, year |-> <<1998>>, U |-> <<500>>, L |-> Null]}

\* Row number i of a file of the given schema holding the data s; id is the row's
\* number in the file, the columns the model does not read hold 0.
FileRow(schema, s, i) ==
    [c \in schema |->
        CASE c = "id" -> <<i>>
          [] c = "year" -> s.year
          [] c = "reclat" -> s.lat
          [] c = "reclong" -> s.lon
          [] c = "Mass (g)" -> s.U
          [] c = "mass (g)" -> s.L
          [] OTHER -> <<0>>]

\* The columns of the file that hold text.
TextColumns == {"name", "nametype", "recclass", "fall", "GeoLocation"}

\* pl.read_csv on a file of the given columns and rows: the type of a column is
\* inferred from its cells, and a column with no value at all (every cell
\* empty, or no row) is read as String.
ReadCsv(schema, rows) ==
    Frame(schema,
          [c \in schema |->
              IF c \in TextColumns \/ \A i \in 1..Len(rows) : IsNull(rows[i][c])
              THEN "String"
              ELSE IF c \in {"reclat", "reclong"} THEN "Float64" ELSE "Int64"],
          rows)

\* Every file of at most MaxLen rows over the schemas and the samples.
ShortFiles ==
    {ReadCsv(schema, [i \in 1..n |-> FileRow(schema, f[i], i)]) :
        schema \in Schemas, n \in 0..MaxLen, f \in [1..MaxLen -> Samples]}

\* The mass of row i of a long file: an odd row weighs 500*i grams, an even row
\* the same as the row before it (e = -1) or 500*i (e = 0).
LongMass(i, e) == IF i % 2 = 1 THEN 500 * i ELSE 500 * (i + e[i \div 2])

\* Files of TopN - 1 to MaxRows valid rows, so that head(10) is given fewer rows
\* than it keeps, as many, and more, with rows of equal mass among them.
LongFiles ==
    LET schema == BaseColumns \cup {"mass (g)"}
    IN {ReadCsv(schema,
              [i \in 1..n |->
                  FileRow(schema,
                          [lat |-> <<27>>, lon |-> <<-3>>,
                           year |-> <<1998 + (i % 3)>>, U |-> Null,
                           L |-> <<LongMass(i, e)>>], i)]) :
            n \in (TopN - 1)..MaxRows,
            e \in [1..(MaxRows \div 2) -> {-1, 0}]}

\* The calendar years datetime.now().year may return.
CurrentYears == {2025, 2026}

\* A second run of the normalizer that has not taken place.
NotRun == [ok |-> FALSE, table |-> NoFrame, err |-> "not run"]

\* --------------------------------------------------------------- the run
\* The script before line 46: the file on disk (NoFrame: there is none), df not
\* bound, nothing shown.
Init ==
    /\ csv \in ShortFiles \cup LongFiles \cup {NoFrame}
    /\ df = NoFrame
    /\ current_year = 0
    /\ pc = "load"
    /\ err = "none"
    /\ out = <<>>
    /\ evaluated = {}
    /\ heaviest = NoFrame
    /\ yearly_counts = NoFrame
    /\ second = NotRun

\* Line 47: df = load_data(); pl.read_csv raises when the file is missing.
LoadData ==
    /\ pc = "load"
    /\ IF csv.defined
       THEN df' = csv /\ pc' = "rename" /\ err' = err
       ELSE df' = df /\ pc' = "except" /\ err' = "FileNotFoundError"
    /\ UNCHANGED <<csv, current_year, out, evaluated, heaviest, yearly_counts,
                   second>>

\* Line 48: df = rename_columns(df)
RenameStep ==
    /\ pc = "rename"
    /\ df' = RenameColumns(df)
    /\ pc' = "process"
    /\ UNCHANGED <<csv, current_year, err, out, evaluated, heaviest,
                   yearly_counts, second>>

\* Line 49: df = process_data(df), which reads the clock at line 30; when it
\* raises, df keeps the renamed frame.
ProcessStep ==
    /\ pc = "process"
    /\ \E cy \in CurrentYears :
          LET res == ProcessData(df, cy)
          IN /\ current_year' = cy
             /\ IF res.ok
                THEN df' = res.table /\ pc' = "success" /\ err' = err
                ELSE df' = df /\ pc' = "except" /\ err' = res.err
    /\ UNCHANGED <<csv, out, evaluated, heaviest, yearly_counts, second>>

\* Line 51: st.success("Data loaded successfully!")
Success ==
    /\ pc = "success"
    /\ out' = Append(out, "success")
    /\ pc' = "metric1"
    /\ UNCHANGED <<csv, df, current_year, err, evaluated, heaviest,
                   yearly_counts, second>>

\* Lines 54-55: the card "Total Meteorites", df.shape[0]
Metric1 ==
    /\ pc = "metric1"
    /\ out' = Append(out, "metric: Total Meteorites")
    /\ pc' = "metric2"
    /\ UNCHANGED <<csv, df, current_year, err, evaluated, heaviest,
                   yearly_counts, second>>

\* Line 56: the card "Date Range"; the f-string prints a None as "None".
Metric2 ==
    /\ pc = "metric2"
    /\ IF "Year" \in df.cols
       THEN /\ evaluated' = evaluated \cup {"Year.min", "Year.max"}
            /\ out' = Append(out, "metric: Date Range")
            /\ pc' = "metric3"
            /\ err' = err
       ELSE /\ pc' = "except"
            /\ err' = "ColumnNotFoundError"
            /\ UNCHANGED <<out, evaluated>>
    /\ UNCHANGED <<csv, df, current_year, heaviest, yearly_counts, second>>

\* Line 57: the card "Heaviest Meteorite"; format(None, ".2f") raises TypeError.
Metric3 ==
    /\ pc = "metric3"
    /\ IF "Mass (kg)" \notin df.cols
       THEN /\ pc' = "except"
            /\ err' = "ColumnNotFoundError"
            /\ UNCHANGED <<out, evaluated>>
       ELSE /\ evaluated' = evaluated \cup {"Mass (kg).max"}
            /\ IF IsNull(ColMax(df, "Mass (kg)"))
               THEN pc' = "except" /\ err' = "TypeError" /\ out' = out
               ELSE /\ pc' = "map"
                    /\ err' = err
                    /\ out' = Append(out, "metric: Heaviest Meteorite")
    /\ UNCHANGED <<csv, df, current_year, heaviest, yearly_counts, second>>

\* Lines 59-84: the text on classifications and the map; plotly raises
\* ValueError for a column the frame lacks.
Map ==
    /\ pc = "map"
    /\ IF MapColumns \subseteq df.cols
       THEN out' = Append(out, "plotly_chart: map") /\ pc' = "explorer" /\ err' = err
       ELSE out' = out /\ pc' = "except" /\ err' = "ValueError"
    /\ UNCHANGED <<csv, df, current_year, evaluated, heaviest, yearly_counts,
                   second>>

\* Lines 86-93: the data explorer (df.head of the slider's value) and the summary
Explorer ==
    /\ pc = "explorer"
    /\ out' = out \o <<"dataframe", "describe">>
    /\ pc' = "heaviest"
    /\ UNCHANGED <<csv, df, current_year, err, evaluated, heaviest,
                   yearly_counts, second>>

\* Lines 99-103: heaviest = df.sort("Mass (kg)", descending=True).head(10)
Heaviest ==
    /\ pc = "heaviest"
    /\ \E s \in SortFrame(df, "Mass (kg)", TRUE) :
          heaviest' = FrameHead(s, TopN)
    /\ evaluated' = evaluated \cup {"top 10"}
    /\ out' = Append(out, "plotly_chart: bar")
    /\ pc' = "yearly"
    /\ UNCHANGED <<csv, df, current_year, err, yearly_counts, second>>

\* Lines 105-109: yearly_counts = df.group_by("Year").agg(pl.count()).sort("Year")
Yearly ==
    /\ pc = "yearly"
    /\ \E g \in GroupByYearCount(df) :
          \E s \in SortFrame(g, "Year", FALSE) : yearly_counts' = s
    /\ evaluated' = evaluated \cup {"group_by Year"}
    /\ out' = Append(out, "plotly_chart: line")
    /\ pc' = "sidebar"
    /\ UNCHANGED <<csv, df, current_year, err, heaviest, second>>

\* Lines 111-114: the one handler of every exception
Except ==
    /\ pc = "except"
    /\ out' = out \o <<"error", IF df.defined THEN "schema" ELSE "DataFrame not created">>
    /\ pc' = "sidebar"
    /\ UNCHANGED <<csv, df, current_year, err, evaluated, heaviest,
                   yearly_counts, second>>

\* Lines 116-119: the sidebar, after the try statement
Sidebar ==
    /\ pc = "sidebar"
    /\ out' = Append(out, "sidebar")
    /\ pc' = "done"
    /\ UNCHANGED <<csv, df, current_year, err, evaluated, heaviest,
                   yearly_counts, second>>

Next ==
    \/ LoadData
    \/ RenameStep
    \/ ProcessStep
    \/ Success
    \/ Metric1
    \/ Metric2
    \/ Metric3
    \/ Map
    \/ Explorer
    \/ Heaviest
    \/ Yearly
    \/ Except
    \/ Sidebar

Spec == Init /\ [][Next]_vars

\* The normalizer (rename_columns, then process_data) run again on the table the
\* first run returned, with the clock read again.
SecondRun ==
    /\ pc = "success"
    /\ second = NotRun
    /\ \E cy \in CurrentYears :
          /\ cy >= current_year
          /\ second' = ProcessData(RenameColumns(df), cy)
    /\ UNCHANGED <<csv, df, current_year, pc, err, out, evaluated, heaviest,
                   yearly_counts>>

NextTwice ==
    \/ LoadData
    \/ RenameStep
    \/ ProcessStep
    \/ SecondRun

SpecTwice == Init /\ [][NextTwice]_vars

\* ------------------------------------------------------------ properties
\* process_data has returned a table: line 49 is behind, line 51 next or done.
Returned == pc = "success" \/ (Len(out) > 0 /\ out[1] = "success")

\* The column of the file that holds the mass in grams process_data reads.
SourceMassColumn == IF "Mass (g)" \in csv.cols THEN "Mass (g)" ELSE "mass (g)"

\* The row of the file a row of a later table comes from, by its ID.
SourceRow(r) == csv.rows[r["ID"][1]]

\* Row i of the file has a latitude, a longitude, a mass and a year, and the
\* year is not after the year read at line 30.
ValidSource(i) ==
    LET r == csv.rows[i]
    IN /\ SourceMassColumn \in csv.cols
       /\ ~IsNull(r["reclat"])
       /\ ~IsNull(r["reclong"])
       /\ ~IsNull(r[SourceMassColumn])
       /\ ~IsNull(r["year"])
       /\ r["year"][1] <= current_year

OutputCells == {"Latitude", "Longitude", "Year", "Mass (kg)"}

\* C1: every row of the table process_data returns has a non-null Latitude,
\* Longitude, Year and Mass (kg).
Thm_C1 ==
    Returned =>
        /\ OutputCells \subseteq df.cols
        /\ \A i \in 1..Len(df.rows) : \A c \in OutputCells : ~IsNull(df.rows[i][c])

\* A file of three rows, one without latitude and one without mass, of which
\* one row is returned.
Wit_C1 ==
    /\ Returned
    /\ Len(csv.rows) = 3
    /\ Len(df.rows) = 1
    /\ \E i \in 1..3 : IsNull(csv.rows[i]["reclat"])
    /\ \E i \in 1..3 : IsNull(csv.rows[i][SourceMassColumn])

\* C2: every row returned has Year <= the calendar year read at the start of
\* the call; a row dated 2999 is never returned.
Thm_C2 ==
    Returned =>
        \A i \in 1..Len(df.rows) :
            /\ df.rows[i]["Year"][1] <= current_year
            /\ df.rows[i]["Year"][1] # 2999

\* A file with an otherwise valid row dated 2999 and a row dated with the
\* current year, the second of which is returned.
Wit_C2 ==
    /\ Returned
    /\ \E i \in 1..Len(csv.rows) :
          /\ csv.rows[i]["year"] = <<2999>>
          /\ ~IsNull(csv.rows[i]["reclat"])
          /\ ~IsNull(csv.rows[i]["reclong"])
          /\ ~IsNull(csv.rows[i][SourceMassColumn])
    /\ \E i \in 1..Len(df.rows) : df.rows[i]["Year"] = <<current_year>>

\* C3: Mass (kg) of every row returned is its source row's mass in grams
\* divided by 1000, exactly, and the mass-in-grams column the division read is
\* not a column of the table returned.
Thm_C3 ==
    Returned =>
        /\ SourceMassColumn \notin df.cols
        /\ \A i \in 1..Len(df.rows) :
              LET kg == df.rows[i]["Mass (kg)"]
              IN /\ Len(kg) = 2
                 /\ kg[2] \in 0..999
                 /\ 1000 * kg[1] + kg[2] = SourceRow(df.rows[i])[SourceMassColumn][1]

\* Rows of 500 g and of 1750000 g are returned as 0.5 kg and 1750.0 kg.
Wit_C3 ==
    /\ Returned
    /\ \E i \in 1..Len(df.rows) : df.rows[i]["Mass (kg)"] = <<0, 500>>
    /\ \E i \in 1..Len(df.rows) : df.rows[i]["Mass (kg)"] = <<1750, 0>>

\* C4: a file with a valid row is never refused by process_data; every valid
\* row of the file is in the table returned exactly once with its Year
\* unchanged, the rows returned are in the file's order, and the row of
\* 1750000 g dated 1998 is returned with 1750.0 kg.
Thm_C4 ==
    /\ (/\ pc \notin {"load", "rename", "process"}
        /\ \E i \in 1..Len(csv.rows) : ValidSource(i))
       => Returned
    /\ Returned =>
        /\ \A i \in 1..Len(csv.rows) :
              ValidSource(i) =>
                  /\ Cardinality({j \in 1..Len(df.rows) : df.rows[j]["ID"] = <<i>>}) = 1
                  /\ \A j \in 1..Len(df.rows) :
                        df.rows[j]["ID"] = <<i>> =>
                            /\ df.rows[j]["Year"] = csv.rows[i]["year"]
                            /\ (/\ csv.rows[i][SourceMassColumn] = <<1750000>>
                                /\ csv.rows[i]["year"] = <<1998>>)
                               => df.rows[j]["Mass (kg)"] = <<1750, 0>>
        /\ \A j, k \in 1..Len(df.rows) :
              j < k => df.rows[j]["ID"][1] < df.rows[k]["ID"][1]

\* A file of which some row is dropped and at least two are returned, one of
\* them dated with the current year.
Wit_C4 ==
    /\ Returned
    /\ Len(df.rows) >= 2
    /\ Len(csv.rows) > Len(df.rows)
    /\ \E j \in 1..Len(df.rows) : df.rows[j]["Year"] = <<current_year>>
    /\ \E j \in 1..Len(df.rows) : df.rows[j]["Mass (kg)"] = <<1750, 0>>

\* C5 as stated: the second run returns the table the first run returned.
Orig_C5 == second # NotRun => (second.ok /\ second.table = df)

\* C5 as amended: the second run never returns the table of the first.  The
\* first run removed the mass column it read, so the second run raises
\* ColumnNotFoundError; only when the file held both spellings can it return a
\* table, one that has lost the column 'mass (g)' too and has no more rows.
Thm_C5 ==
    second # NotRun =>
        IF "mass (g)" \in df.cols
        THEN \/ ~second.ok
             \/ /\ second.table # df
                /\ "mass (g)" \notin second.table.cols
                /\ Len(second.table.rows) <= Len(df.rows)
        ELSE ~second.ok /\ second.err = "ColumnNotFoundError"

\* The second run on a table of two rows raises ColumnNotFoundError.
Wit_C5 ==
    /\ second.err = "ColumnNotFoundError"
    /\ Len(df.rows) = 2

\* C6: a file with neither 'Mass (g)' nor 'mass (g)' ends in ColumnNotFoundError
\* (the SchemaError) with no table returned and nothing derived from one; a
\* file with both is read from 'Mass (g)', which alone is removed.
Thm_C6 ==
    /\ (/\ pc \notin {"load", "rename", "process"}
        /\ csv.defined
        /\ "Mass (g)" \notin csv.cols
        /\ "mass (g)" \notin csv.cols)
       => /\ err = "ColumnNotFoundError"
          /\ ~Returned
          /\ "Mass (kg)" \notin df.cols
          /\ \A k \in 1..Len(out) : out[k] \in {"error", "schema", "sidebar"}
          /\ heaviest = NoFrame
          /\ yearly_counts = NoFrame
    /\ (Returned /\ {"Mass (g)", "mass (g)"} \subseteq csv.cols)
       => ("Mass (g)" \notin df.cols /\ "mass (g)" \in df.cols)

\* A file of rows without a mass column has been handled to the end.
Wit_C6 ==
    /\ pc = "done"
    /\ csv.defined
    /\ Len(csv.rows) >= 1
    /\ "Mass (g)" \notin csv.cols
    /\ "mass (g)" \notin csv.cols
    /\ err = "ColumnNotFoundError"

\* C7 as stated: when the table returned has no row, nothing is aggregated and
\* neither the success message nor a metric card is shown.
Orig_C7 ==
    (Returned /\ Len(df.rows) = 0) =>
        /\ evaluated = {}
        /\ \A k \in 1..Len(out) : out[k] \in {"error", "schema", "sidebar"}

\* The rows of df that are not in heaviest, by ID.
LeftOut ==
    {i \in 1..Len(df.rows) :
        \A k \in 1..Len(heaviest.rows) : heaviest.rows[k]["ID"] # df.rows[i]["ID"]}

\* C8: heaviest has min(10, n) rows, each a row of the table, no row twice, in
\* non-increasing order of Mass (kg), and no row left out is heavier than a
\* row kept.
Thm_C8 ==
    heaviest.defined =>
        LET H == heaviest.rows
            n == Len(df.rows)
        IN /\ Len(H) = IF n < TopN THEN n ELSE TopN
           /\ \A k \in 1..Len(H) : \E i \in 1..n : H[k] = df.rows[i]
           /\ \A j, k \in 1..Len(H) : j < k => H[j]["ID"] # H[k]["ID"]
           /\ \A j, k \in 1..Len(H) :
                 j < k => CellKey(H[j]["Mass (kg)"]) >= CellKey(H[k]["Mass (kg)"])
           /\ \A i \in LeftOut : \A k \in 1..Len(H) :
                 CellKey(df.rows[i]["Mass (kg)"]) <= CellKey(H[k]["Mass (kg)"])

\* A table of more than 10 rows, of which 10 are kept.
Wit_C8 ==
    /\ heaviest.defined
    /\ Len(df.rows) > TopN
    /\ Len(heaviest.rows) = TopN
    /\ LeftOut # {}

RECURSIVE SumCounts(_)
SumCounts(rows) ==
    IF rows = <<>> THEN 0 ELSE Head(rows)["count"][1] + SumCounts(Tail(rows))

\* C9: yearly_counts has one row per Year of the table and no other, each count
\* is the number of rows of that Year and at least 1, the counts add up to the
\* number of rows, and the Years ascend strictly.
Thm_C9 ==
    yearly_counts.defined =>
        LET Y == yearly_counts.rows
        IN /\ {Y[k]["Year"] : k \in 1..Len(Y)}
                = {df.rows[i]["Year"] : i \in 1..Len(df.rows)}
           /\ \A k \in 1..Len(Y) :
                 /\ Y[k]["count"][1] >= 1
                 /\ Y[k]["count"][1]
                      = Cardinality({i \in 1..Len(df.rows) :
                                        df.rows[i]["Year"] = Y[k]["Year"]})
           /\ SumCounts(Y) = Len(df.rows)
           /\ \A j, k \in 1..Len(Y) : j < k => Y[j]["Year"][1] < Y[k]["Year"][1]

\* A table with rows of three Years, one of them the Year of several rows.
Wit_C9 ==
    /\ yearly_counts.defined
    /\ Len(yearly_counts.rows) = 3
    /\ \E k \in 1..3 : yearly_counts.rows[k]["count"][1] >= 2

\* C10 as stated: of two rows of equal Mass (kg), the one earlier in the table
\* is earlier in heaviest, and is the one kept when only one is.
Orig_C10 ==
    heaviest.defined =>
        LET H == heaviest.rows
        IN /\ \A j, k \in 1..Len(H) :
                 (j < k /\ H[j]["Mass (kg)"] = H[k]["Mass (kg)"])
                     => H[j]["ID"][1] < H[k]["ID"][1]
           /\ \A i \in LeftOut : \A k \in 1..Len(H) :
                 H[k]["Mass (kg)"] = df.rows[i]["Mass (kg)"]
                     => H[k]["ID"][1] < df.rows[i]["ID"][1]

====
